---- MODULE Spec2Model ----
(***************************************************************************)
(* A model of packages/ui/src/components/modal.tsx: one ModalProvider      *)
(* holding the isOpen flag, one Modal below it with its Escape-key effect  *)
(* and its backdrop, a Modal.Trigger, and Modal.Action / Modal.Close       *)
(* buttons whose click handlers may be asynchronous.                       *)
(*                                                                         *)
(* React's scheduling is modelled as React documents it: a state update is *)
(* committed with the call that makes it, and the passive effects          *)
(* (useEffect bodies and their cleanups) of a commit run in a later step,  *)
(* RunPassiveEffects, and at the latest before the next commit.  Browser   *)
(* events may be delivered between a commit and its passive effects.       *)
(***************************************************************************)
EXTENDS Integers, FiniteSets, Sequences, TLC

\* Number of Modal.Action click slots that may be in flight at once.
MaxPending == 2
\* Number of distinct handleEscape closures told apart (ids are reused in
\* rotation; one is created by every run of the effect).
MaxHandlers == 3

Slots == 1..MaxPending
HandlerIds == 1..MaxHandlers

\* event.key values delivered to the document
Keys == {"Escape", "Enter"}

\* The onClickOutside prop of Modal: absent, a handler that leaves the modal
\* alone, a handler that itself calls closeModal.
OutsideKinds == {"none", "noop", "closes"}

\* The onClick prop of Modal.Action: absent; returns undefined; is the
\* provider's closeModal (Modal.Close); throws synchronously; returns a
\* Promise that is still pending when the click handler suspends.
ClickKinds == {"none", "void", "closeModal", "throws", "promise"}

\* The components that call useModal.
HookSites == {"Modal", "Trigger", "Action", "Close", "direct"}

ErrorMessage == "useModal must be used within a ModalProvider"

VARIABLES
    isOpen,          \* ModalProvider: useState<boolean>
    modalMounted,    \* whether <Modal> is mounted below the provider
    layerPresent,    \* whether the backdrop/panel are in the DOM (AnimatePresence)
    onClickOutside,  \* Modal's onClickOutside prop, one of OutsideKinds
    listeners,       \* keydown listeners of this Modal on document (handler ids)
    cleanupOf,       \* handler id the registered effect cleanup removes, 0: none
    nextId,          \* id of the next handleEscape closure
    passive,         \* passive effects of the last commit still to run
    ops,             \* Modal.Action clicks: per slot, kind, status and calls made
    last,            \* the last event delivered and what it invoked
    lastCall,        \* the most recent of openModal / closeModal, "none" at mount
    escVisible,      \* Escape was pressed while the modal was visible since the last openModal
    unmountedOpen,   \* Modal is unmounted and isOpen was true when it was unmounted
    hook             \* outcome of the most recent useModal call

vars == <<isOpen, modalMounted, layerPresent, onClickOutside, listeners, cleanupOf,
          nextId, passive, ops, last, lastCall, escVisible, unmountedOpen, hook>>

-----------------------------------------------------------------------------
\* ModalContext and useModal

\* createContext<ModalContextProps | undefined>(undefined)
ModalContext == [provided |-> FALSE, isOpen |-> FALSE]

\* <ModalContext.Provider value={{ isOpen, openModal, closeModal }}>
ProviderValue(open) == [provided |-> TRUE, isOpen |-> open]

\* useContext(ModalContext): the nearest provider's value, else the default
useContext(inProvider, open) == IF inProvider THEN ProviderValue(open) ELSE ModalContext

useModalNoCheck(context) ==
    [threw |-> FALSE, error |-> "", value |-> context]

useModal(context) ==
    IF ~context.provided
    THEN [threw |-> TRUE, error |-> ErrorMessage, value |-> ModalContext]
    ELSE [threw |-> FALSE, error |-> "", value |-> context]

-----------------------------------------------------------------------------
\* The state an event handler works on: the React-managed state together with
\* tallies of what the current event has invoked so far.

InitialIsOpenTrue == TRUE

\* useState<boolean>(false)
InitialIsOpen == FALSE

Cur ==
    [isOpen |-> isOpen, modalMounted |-> modalMounted, layerPresent |-> layerPresent,
     listeners |-> listeners, cleanupOf |-> cleanupOf, nextId |-> nextId,
     passive |-> passive, lastCall |-> lastCall,
     openCalls |-> 0, closeCalls |-> 0, defaultCloses |-> 0, outsideCalls |-> 0,
     invoked |-> 0, onClickCalls |-> 0, handlerCloses |-> 0, status |-> "free"]

effectCleanupLeaks(x) == [x EXCEPT !.cleanupOf = 0]

\* return () => document.removeEventListener("keydown", handleEscape)
effectCleanup(x) ==
    [x EXCEPT !.listeners = @ \ {x.cleanupOf}, !.cleanupOf = 0]

\* The body of Modal's useEffect: a new handleEscape closure, added to the
\* document when isOpen and removed (it was never added) otherwise.
effect(x) ==
    LET handleEscape == x.nextId IN
    [x EXCEPT !.listeners = IF x.isOpen THEN @ \cup {handleEscape}
                                         ELSE @ \ {handleEscape},
              !.cleanupOf = handleEscape,
              !.nextId = (handleEscape % MaxHandlers) + 1]

flushPassiveEffectsKeepsOnUnmount(x) ==
    CASE x.passive = "idle"    -> x
      [] x.passive = "update"  -> [effect(effectCleanup(x)) EXCEPT !.passive = "idle"]
      [] x.passive = "unmount" -> [x EXCEPT !.passive = "idle", !.cleanupOf = 0]

\* React running the passive effects of the last commit: the previous
\* effect's cleanup, then (deps [isOpen, closeModal] changed, or first mount)
\* the new effect; on unmount the cleanup alone.
flushPassiveEffects(x) ==
    CASE x.passive = "idle"    -> x
      [] x.passive = "update"  -> [effect(effectCleanup(x)) EXCEPT !.passive = "idle"]
      [] x.passive = "unmount" -> [effectCleanup(x) EXCEPT !.passive = "idle"]

\* setIsOpen(v): no render when the state is unchanged; otherwise the pending
\* passive effects run, the new state is committed, Modal re-renders (the
\* layer is mounted when open, and kept for its exit animation when closed)
\* and the effect is scheduled, its dependency isOpen having changed.
setIsOpen(x, v) ==
    IF x.isOpen = v THEN x
    ELSE LET f == flushPassiveEffects(x) IN
         [f EXCEPT !.isOpen = v,
                   !.layerPresent = f.modalMounted /\ (v \/ f.layerPresent),
                   !.passive = IF f.modalMounted THEN "update" ELSE "idle"]

\* const openModal = useCallback(() => setIsOpen(true), [])
openModal(x) ==
    [setIsOpen(x, TRUE) EXCEPT !.openCalls = @ + 1, !.lastCall = "open"]

closeModalToggles(x) ==
    [setIsOpen(x, ~x.isOpen) EXCEPT !.closeCalls = @ + 1, !.lastCall = "close"]

\* const closeModal = useCallback(() => setIsOpen(false), [])
closeModal(x) ==
    [setIsOpen(x, FALSE) EXCEPT !.closeCalls = @ + 1, !.lastCall = "close"]

handleEscapeAnyKey(x, key) == closeModal(x)

\* const handleEscape = (event) => { if (event.key === "Escape") closeModal() }
handleEscape(x, key) ==
    IF key = "Escape" THEN closeModal(x) ELSE x

\* The document dispatching a keydown to the n listeners registered when the
\* dispatch began.
RECURSIVE dispatchKeydown(_, _, _)
dispatchKeydown(x, n, key) ==
    IF n = 0 THEN x
    ELSE dispatchKeydown([handleEscape(x, key) EXCEPT !.invoked = @ + 1], n - 1, key)

-----------------------------------------------------------------------------
\* Modal's backdrop and panel

\* The caller's onClickOutside handler running once.
runOnClickOutside(x, kind) ==
    [(IF kind = "closes" THEN closeModal(x) ELSE x) EXCEPT !.outsideCalls = @ + 1]

backdropOnClickBoth(x, kind) ==
    LET y == IF kind # "none" THEN runOnClickOutside(x, kind) ELSE x IN
    [closeModal(y) EXCEPT !.defaultCloses = @ + 1]

\* onClick={onClickOutside ? onClickOutside : closeModal}
backdropOnClick(x, kind) ==
    IF kind # "none"
    THEN runOnClickOutside(x, kind)
    ELSE [closeModal(x) EXCEPT !.defaultCloses = @ + 1]

panelOnClickBubbles(x, kind) == backdropOnClick(x, kind)

\* onClick={(e) => e.stopPropagation()}: the click never reaches the backdrop
panelOnClick(x, kind) == x

-----------------------------------------------------------------------------
\* Modal.Trigger, Modal.Action, Modal.Close

\* Trigger's handleClick: openModal(); if (onClick) onClick()
triggerHandleClick(x) == openModal(x)

\* The caller's onClick of a Modal.Action being called once. Modal.Close
\* passes the provider's closeModal as onClick.
runOnClick(x, kind) ==
    LET y == IF kind = "closeModal" THEN closeModal(x) ELSE x IN
    [y EXCEPT !.onClickCalls = @ + 1, !.handlerCloses = @ + (y.closeCalls - x.closeCalls)]

resumeHandleClickFinally(x, outcome) ==
    [closeModal(x) EXCEPT !.status = outcome]

\* handleClick after its await has settled: closeModal() when the awaited
\* value resolved; a rejection leaves the async function at the await.
resumeHandleClick(x, outcome) ==
    IF outcome = "resolved"
    THEN [closeModal(x) EXCEPT !.status = "resolved"]
    ELSE [x EXCEPT !.status = "rejected"]

handleClickNoAwait(x, kind) ==
    IF kind = "none" THEN [closeModal(x) EXCEPT !.status = "resolved"]
    ELSE LET y == runOnClick(x, kind) IN
         CASE kind = "throws"  -> [y EXCEPT !.status = "threw"]
           [] kind = "promise" -> [closeModal(y) EXCEPT !.status = "pending"]
           [] OTHER            -> resumeHandleClick(y, "resolved")

\* Modal.Action's handleClick up to the point where it completes or suspends:
\*   if (onClick) { await onClick() }  closeModal()
\* Without onClick closeModal is called at once. A synchronous throw rejects
\* the async function. A returned Promise suspends it until the Promise
\* settles; any other value resumes it in a microtask, before another event.
handleClick(x, kind) ==
    IF kind = "none" THEN [closeModal(x) EXCEPT !.status = "resolved"]
    ELSE LET y == runOnClick(x, kind) IN
         CASE kind = "throws"  -> [y EXCEPT !.status = "threw"]
           [] kind = "promise" -> [y EXCEPT !.status = "pending"]
           [] OTHER            -> resumeHandleClick(y, "resolved")

-----------------------------------------------------------------------------
\* The state machine

\* A click slot: the onClick kind and the state of its handleClick, the calls
\* it has made (onClick; closeModal from inside onClick; closeModal of its
\* own), and what happened to the flag while it was suspended: 0 nothing yet,
\* 1 the modal was closed, 2 it was closed and opened again.
FreeSlot == [kind |-> "none", status |-> "free", onClickCalls |-> 0,
             handlerCloses |-> 0, ownCloses |-> 0, phase |-> 0]

\* The slots after a step that leaves isOpen = open: a suspended click notes
\* what happened to the flag; the record of a click that has ended is kept
\* for the step that ended it only, and its slot is free after the next.
Observe(o, open) ==
    [s \in Slots |->
        IF o[s].status # "pending" THEN FreeSlot
        ELSE [o[s] EXCEPT !.phase = IF @ = 0 /\ ~open THEN 1
                                    ELSE IF @ = 1 /\ open THEN 2 ELSE @]]

\* The record kept of the last step: for an input event (type "keydown",
\* "backdrop", "panel", "trigger", "action") or a settling Promise ("settle")
\* what it invoked; type "none" for any other step.
Ev(type, key, x) ==
    [type |-> type, key |-> key, closeCalls |-> x.closeCalls,
     defaultCloses |-> x.defaultCloses, outsideCalls |-> x.outsideCalls,
     invoked |-> x.invoked,
     wasVisible |-> (type # "none" /\ modalMounted /\ isOpen),
     wasIdle |-> (type # "none" /\ passive = "idle")]

\* The modal is on screen: Modal is mounted and rendered with isOpen true.
Visible == modalMounted /\ isOpen

\* The next state's React-managed variables are those of x.
Commit(x, esc) ==
    /\ isOpen' = x.isOpen
    /\ modalMounted' = x.modalMounted
    /\ layerPresent' = x.layerPresent
    /\ listeners' = x.listeners
    /\ cleanupOf' = x.cleanupOf
    /\ nextId' = x.nextId
    /\ passive' = x.passive
    /\ lastCall' = x.lastCall
    /\ escVisible' = (x.openCalls = 0 /\ (escVisible \/ esc))
    /\ unmountedOpen' = (~x.modalMounted /\ IF modalMounted THEN isOpen ELSE unmountedOpen)

\* ModalProvider, Modal and Trigger have mounted; Modal's effect has not run yet.
Init ==
    /\ isOpen = InitialIsOpen
    /\ modalMounted = TRUE
    /\ layerPresent = InitialIsOpen
    /\ onClickOutside \in OutsideKinds
    /\ listeners = {}
    /\ cleanupOf = 0
    /\ nextId = 1
    /\ passive = "update"
    /\ ops = [s \in Slots |-> FreeSlot]
    /\ last = [type |-> "mount", key |-> "", closeCalls |-> 0,
               defaultCloses |-> 0, outsideCalls |-> 0, invoked |-> 0,
               wasVisible |-> FALSE, wasIdle |-> FALSE]
    /\ lastCall = "none"
    /\ escVisible = FALSE
    /\ unmountedOpen = FALSE
    /\ hook = [site |-> "Modal", inProvider |-> TRUE, open |-> InitialIsOpen,
               result |-> useModal(useContext(TRUE, InitialIsOpen))]

\* A consumer of useModal inside the provider calls openModal().
OpenModalDirect ==
    LET x == openModal(Cur) IN
    /\ Commit(x, FALSE)
    /\ last' = Ev("none", "", x)
    /\ ops' = Observe(ops, isOpen')
    /\ UNCHANGED <<onClickOutside, hook>>

\* A consumer of useModal inside the provider calls closeModal().
CloseModalDirect ==
    LET x == closeModal(Cur) IN
    /\ Commit(x, FALSE)
    /\ last' = Ev("none", "", x)
    /\ ops' = Observe(ops, isOpen')
    /\ UNCHANGED <<onClickOutside, hook>>

\* A click on Modal.Trigger.
TriggerClick ==
    LET x == triggerHandleClick(Cur) IN
    /\ Commit(x, FALSE)
    /\ last' = Ev("trigger", "", x)
    /\ ops' = Observe(ops, isOpen')
    /\ UNCHANGED <<onClickOutside, hook>>

\* A click on the backdrop, outside the panel.
BackdropClick ==
    /\ modalMounted /\ layerPresent
    /\ LET x == backdropOnClick(Cur, onClickOutside) IN
       /\ Commit(x, FALSE)
       /\ last' = Ev("backdrop", "", x)
    /\ ops' = Observe(ops, isOpen')
    /\ UNCHANGED <<onClickOutside, hook>>

\* A click on the panel itself (not on a button inside it).
PanelClick ==
    /\ modalMounted /\ layerPresent
    /\ LET x == panelOnClick(Cur, onClickOutside) IN
       /\ Commit(x, FALSE)
       /\ last' = Ev("panel", "", x)
    /\ ops' = Observe(ops, isOpen')
    /\ UNCHANGED <<onClickOutside, hook>>

\* A keydown event reaching document.
Keydown(key) ==
    LET x == dispatchKeydown(Cur, Cardinality(listeners), key) IN
    /\ Commit(x, key = "Escape" /\ Visible)
    /\ last' = Ev("keydown", key, x)
    /\ ops' = Observe(ops, isOpen')
    /\ UNCHANGED <<onClickOutside, hook>>

\* A click on a Modal.Action (kind "closeModal": a Modal.Close) in the panel.
ActionClick(s, kind) ==
    /\ modalMounted /\ layerPresent
    /\ ops[s].status = "free"
    /\ LET x == handleClick(Cur, kind) IN
       /\ Commit(x, FALSE)
       /\ ops' = [Observe(ops, x.isOpen) EXCEPT ![s] =
                      [kind |-> kind, status |-> x.status,
                       onClickCalls |-> x.onClickCalls,
                       handlerCloses |-> x.handlerCloses,
                       ownCloses |-> x.closeCalls - x.handlerCloses,
                       phase |-> 0]]
       /\ last' = Ev("action", "", x)
    /\ UNCHANGED <<onClickOutside, hook>>

\* The Promise a Modal.Action's onClick returned settles.
Settle(s, outcome) ==
    /\ ops[s].status = "pending"
    /\ LET x == resumeHandleClick(Cur, outcome) IN
       /\ Commit(x, FALSE)
       /\ ops' = [Observe(ops, x.isOpen) EXCEPT ![s] =
                      [ops[s] EXCEPT !.status = x.status,
                                     !.ownCloses = @ + x.closeCalls]]
       /\ last' = Ev("settle", "", x)
    /\ UNCHANGED <<onClickOutside, hook>>

\* React runs the passive effects of the last commit.
RunPassiveEffects ==
    /\ passive # "idle"
    /\ LET x == flushPassiveEffects(Cur) IN
       /\ Commit(x, FALSE)
       /\ last' = Ev("none", "", x)
    /\ ops' = Observe(ops, isOpen')
    /\ UNCHANGED <<onClickOutside, hook>>

\* The parent re-renders Modal with another onClickOutside prop. The pending
\* passive effects run before the render; the effect's dependencies are
\* unchanged, so it is not run again.
Rerender(kind) ==
    /\ modalMounted
    /\ kind # onClickOutside
    /\ onClickOutside' = kind
    /\ LET x == flushPassiveEffects(Cur) IN
       /\ Commit(x, FALSE)
       /\ last' = Ev("none", "", x)
    /\ ops' = Observe(ops, isOpen')
    /\ UNCHANGED hook

\* The parent stops rendering Modal: its layer leaves the DOM with it and its
\* effect's cleanup is scheduled.
UnmountModal ==
    /\ modalMounted
    /\ LET f == flushPassiveEffects(Cur)
           x == [f EXCEPT !.modalMounted = FALSE, !.layerPresent = FALSE,
                          !.passive = "unmount"] IN
       /\ Commit(x, FALSE)
       /\ last' = Ev("none", "", x)
    /\ ops' = Observe(ops, isOpen')
    /\ UNCHANGED <<onClickOutside, hook>>

\* The parent renders Modal again: a fresh instance, whose effect is scheduled.
MountModal ==
    /\ ~modalMounted
    /\ LET f == flushPassiveEffects(Cur)
           x == [f EXCEPT !.modalMounted = TRUE, !.layerPresent = f.isOpen,
                          !.passive = "update"] IN
       /\ Commit(x, FALSE)
       /\ last' = Ev("none", "", x)
    /\ ops' = Observe(ops, isOpen')
    /\ UNCHANGED <<onClickOutside, hook>>

\* AnimatePresence removes the layer once its exit animation has finished.
ExitComplete ==
    /\ modalMounted /\ layerPresent /\ ~isOpen
    /\ layerPresent' = FALSE
    /\ last' = Ev("none", "", Cur)
    /\ ops' = Observe(ops, isOpen)
    /\ UNCHANGED <<isOpen, modalMounted, onClickOutside, listeners, cleanupOf, nextId,
                   passive, lastCall, escVisible, unmountedOpen, hook>>

\* A component calls useModal, inside the provider's subtree or outside any.
UseModalCall(site, inProvider) ==
    /\ hook' = [site |-> site, inProvider |-> inProvider, open |-> isOpen,
                result |-> useModal(useContext(inProvider, isOpen))]
    /\ UNCHANGED <<isOpen, modalMounted, layerPresent, onClickOutside, listeners,
                   cleanupOf, nextId, passive, ops, last, lastCall, escVisible,
                   unmountedOpen>>

Next ==
    \/ OpenModalDirect
    \/ CloseModalDirect
    \/ TriggerClick
    \/ BackdropClick
    \/ PanelClick
    \/ \E key \in Keys : Keydown(key)
    \/ \E s \in Slots, kind \in ClickKinds : ActionClick(s, kind)
    \/ \E s \in Slots, outcome \in {"resolved", "rejected"} : Settle(s, outcome)
    \/ RunPassiveEffects
    \/ \E kind \in OutsideKinds : Rerender(kind)
    \/ UnmountModal
    \/ MountModal
    \/ ExitComplete

Spec == Init /\ [][Next]_vars

\* The provider's state changing under components that call useModal.
NextHook ==
    \/ OpenModalDirect
    \/ CloseModalDirect
    \/ \E key \in Keys : Keydown(key)
    \/ RunPassiveEffects
    \/ UnmountModal
    \/ MountModal
    \/ \E site \in HookSites, inProvider \in BOOLEAN : UseModalCall(site, inProvider)

SpecHook == Init /\ [][NextHook]_vars

-----------------------------------------------------------------------------
\* Properties

\* The effect of the current render has run: no passive effect is pending.
EffectsRun == passive = "idle"

\* C1 (as stated): isOpen is false until the first openModal call, and
\* whenever isOpen is true the most recent call was openModal, with no
\* closeModal call and no Escape key press while visible after it.
C1_FlagHistoryAsStated ==
    /\ lastCall = "none" => ~isOpen
    /\ isOpen => lastCall = "open" /\ ~escVisible

\* C1 (amended): isOpen is false until the first openModal call, and whenever
\* isOpen is true the most recent of the openModal / closeModal calls was
\* openModal. (An Escape press closes only through a closeModal call of an
\* attached listener; one made while visible before the effect has attached
\* the listener leaves isOpen true.)
C1_FlagHistory ==
    /\ lastCall = "none" => ~isOpen
    /\ isOpen => lastCall = "open"

\* The modal is open after an openModal call, its effect having run for the
\* fourth time or later (handler ids are given out in rotation).
C1_Witness ==
    /\ isOpen /\ lastCall = "open" /\ ~escVisible
    /\ EffectsRun /\ listeners = {1}

\* C2 (as stated): an Escape keydown while Modal is mounted and isOpen is true
\* makes isOpen false; an Escape keydown while isOpen is false leaves it
\* false and changes nothing; any other key never changes isOpen.
C2_EscapeAsStated ==
    [][\A key \in Keys : Keydown(key) =>
          /\ (key = "Escape" /\ Visible) => ~isOpen'
          /\ (key = "Escape" /\ ~isOpen) =>
                 /\ ~isOpen'
                 /\ UNCHANGED <<modalMounted, layerPresent, listeners, cleanupOf, passive>>
          /\ key # "Escape" => isOpen' = isOpen]_vars

\* C2 (amended): an Escape keydown while Modal is mounted, isOpen is true and
\* Modal's effect has run for that render makes isOpen false; an Escape
\* keydown while isOpen is false leaves it false and changes nothing; any
\* other key never changes isOpen.
C2_Escape ==
    [][\A key \in Keys : Keydown(key) =>
          /\ (key = "Escape" /\ Visible /\ EffectsRun) => ~isOpen'
          /\ (key = "Escape" /\ ~isOpen) =>
                 /\ ~isOpen'
                 /\ UNCHANGED <<modalMounted, layerPresent, listeners, cleanupOf, passive>>
          /\ key # "Escape" => isOpen' = isOpen]_vars

\* Escape was pressed on a visible modal whose effect had run, and closed it.
C2_Witness ==
    /\ last.type = "keydown" /\ last.key = "Escape"
    /\ last.wasVisible /\ last.wasIdle
    /\ last.invoked = 1 /\ last.closeCalls = 1
    /\ ~isOpen

\* C3: a backdrop click without onClickOutside calls closeModal, and isOpen
\* becomes false; with onClickOutside that handler runs exactly once, the
\* default closeModal is not invoked, and isOpen stays as it was unless the
\* handler itself closes the modal.
C3_Backdrop ==
    [][BackdropClick =>
          IF onClickOutside = "none"
          THEN /\ last'.defaultCloses = 1 /\ last'.closeCalls = 1
               /\ last'.outsideCalls = 0
               /\ ~isOpen'
          ELSE /\ last'.outsideCalls = 1
               /\ last'.defaultCloses = 0
               /\ last'.closeCalls = (IF onClickOutside = "closes" THEN 1 ELSE 0)
               /\ onClickOutside = "noop" => isOpen' = isOpen]_vars

\* The backdrop of an open modal with an onClickOutside handler was clicked
\* and the modal is still open.
C3_Witness ==
    /\ last.type = "backdrop" /\ last.wasVisible
    /\ onClickOutside = "noop" /\ last.outsideCalls = 1
    /\ isOpen

\* C4: while the Promise returned by a Modal.Action's onClick is pending, the
\* click has made no closeModal call of its own and the click itself leaves
\* isOpen as it was; its closeModal call is made when the Promise resolves.
\* Without onClick the click calls closeModal directly.
C4_Awaited ==
    /\ [](\A s \in Slots : ops[s].status = "pending" => ops[s].ownCloses = 0)
    /\ [][\A s \in Slots :
            /\ ActionClick(s, "promise") =>
                   /\ ops'[s].status = "pending"
                   /\ last'.closeCalls = 0
                   /\ isOpen' = isOpen
            /\ ActionClick(s, "none") =>
                   /\ ops'[s].onClickCalls = 0 /\ ops'[s].ownCloses = 1
                   /\ ~isOpen'
            /\ Settle(s, "resolved") =>
                   /\ ops[s].ownCloses = 0 /\ ops'[s].ownCloses = 1]_vars

\* A click whose onClick returned a Promise is suspended and the modal is open.
C4_Witness ==
    /\ last.type = "action" /\ last.wasVisible
    /\ \E s \in Slots : ops[s].kind = "promise" /\ ops[s].status = "pending"
    /\ isOpen

\* C5: once Modal has been unmounted while isOpen was true and its teardown
\* has run, no keydown listener of it remains on the document, and an Escape
\* keydown then invokes no handler and calls closeModal zero times.
C5_NoLeak ==
    /\ []((unmountedOpen /\ EffectsRun) => listeners = {})
    /\ [][(Keydown("Escape") /\ unmountedOpen /\ EffectsRun) =>
            /\ last'.invoked = 0
            /\ last'.closeCalls = 0
            /\ isOpen' = isOpen]_vars

\* Escape was pressed after the teardown of a Modal unmounted while open.
C5_Witness ==
    /\ unmountedOpen /\ isOpen
    /\ last.type = "keydown" /\ last.key = "Escape" /\ last.wasIdle
    /\ last.invoked = 0

\* C6: a useModal call with no enclosing ModalProvider throws "useModal must
\* be used within a ModalProvider" and returns no context; inside a
\* ModalProvider it does not throw and returns the provider's value.
C6_UseModal ==
    /\ ~hook.inProvider =>
           /\ hook.result.threw
           /\ hook.result.error = "useModal must be used within a ModalProvider"
           /\ ~hook.result.value.provided
    /\ hook.inProvider =>
           /\ ~hook.result.threw
           /\ hook.result.value = [provided |-> TRUE, isOpen |-> hook.open]

\* Modal.Close was rendered outside any provider, while a provider elsewhere
\* had its modal open.
C6_Witness ==
    /\ hook.site = "Close" /\ ~hook.inProvider
    /\ hook.result.threw
    /\ isOpen

\* C7: once Modal's effect has run for the current render, Modal has exactly
\* one keydown listener on the document when it is mounted and isOpen is
\* true, and none when isOpen is false or Modal is unmounted.
C7_OneListener ==
    EffectsRun =>
        Cardinality(listeners) = (IF modalMounted /\ isOpen THEN 1 ELSE 0)

\* The effect has run at least four times (handler ids are given out in
\* rotation) and the open modal has its one listener.
C7_Witness ==
    /\ EffectsRun /\ Visible
    /\ listeners = {1}
    /\ nextId = 2

\* C8: an onClick that throws, or whose Promise rejects, ends handleClick
\* with that failure: the click makes no closeModal call, isOpen is left as
\* it was, and onClick has been called once.
C8_Failure ==
    [][\A s \in Slots :
          /\ ActionClick(s, "throws") =>
                 /\ ops'[s].status = "threw"
                 /\ ops'[s].ownCloses = 0 /\ last'.closeCalls = 0
                 /\ ops'[s].onClickCalls = 1
                 /\ isOpen' = isOpen
          /\ Settle(s, "rejected") =>
                 /\ ops'[s].status = "rejected"
                 /\ ops'[s].ownCloses = 0 /\ last'.closeCalls = 0
                 /\ ops'[s].onClickCalls = 1
                 /\ isOpen' = isOpen]_vars

\* The Promise of a click rejected while the modal was open, and it is open.
C8_Witness ==
    /\ last.type = "settle" /\ last.wasVisible
    /\ \E s \in Slots : ops[s].status = "rejected"
    /\ isOpen

\* C9: a click whose handler resolves makes exactly one closeModal call of
\* its own, when the handler resolves, whatever happened meanwhile: isOpen is
\* false afterwards, also when the modal was closed and reopened while the
\* Promise was pending, and also when it was already closed.
C9_LateClose ==
    [][\A s \in Slots :
          /\ Settle(s, "resolved") =>
                 /\ last'.closeCalls = 1
                 /\ ops'[s].ownCloses = 1
                 /\ ~isOpen'
          /\ \A kind \in {"void", "closeModal"} : ActionClick(s, kind) =>
                 /\ ops'[s].status = "resolved"
                 /\ ops'[s].ownCloses = 1
                 /\ ~isOpen']_vars

\* The modal was closed and reopened while a click's Promise was pending, and
\* the Promise's resolution has closed the reopened modal.
C9_Witness ==
    /\ last.type = "settle" /\ last.wasVisible
    /\ \E s \in Slots : ops[s].status = "resolved" /\ ops[s].phase = 2
    /\ ~isOpen

\* C10: a click on the panel reaches neither closeModal nor onClickOutside
\* and leaves isOpen as it was.
C10_Panel ==
    [][PanelClick =>
          /\ last'.closeCalls = 0 /\ last'.defaultCloses = 0
          /\ last'.outsideCalls = 0
          /\ isOpen' = isOpen]_vars

\* The panel of an open modal was clicked and the modal is open.
C10_Witness ==
    /\ last.type = "panel" /\ last.wasVisible
    /\ isOpen

====
